---- MODULE Spec2Model ----
(***************************************************************************)
(* State-machine model of src/app.py: the tiered matcher                   *)
(* (_get_recommendations_from_trained_model, _format_item,                 *)
(* _get_popular_items), the game rating ladder (_convert_game_rating) and  *)
(* the anime image cache (_get_anime_image_url,                            *)
(* _persist_anime_cache_async).                                            *)
(*                                                                         *)
(* Python strings are modelled as sequences of one-character strings, so   *)
(* that lower(), strip(), split(), startswith(), "in" and the \b regex are *)
(* computed and not assumed.                                               *)
(***************************************************************************)
EXTENDS Integers, Sequences, FiniteSets, TLC

\* the matcher: TRAINED_MODELS[item_type], the request served, its result
VARIABLES item_type, data, popular, req, res

\* the rating converter: its argument and what it returned
VARIABLES rating_in, rating_out

\* the image cache: the requests module (None or not), ANIME_IMG_CACHE, the
\* side file, the holder of _anime_img_cache_lock, the request threads, the
\* last calls each thread completed, the _save threads started and not yet
\* in the lock, the calls made so far, whether a save met an I/O error
VARIABLES requests_avail, cache, file, lock, th, hist, savers, ncalls, io_error

\* the catalog builder and the popular endpoint: the raw record given to
\* _coerce_record and what it returned; the anime_popular list of create_app
\* as it is now and as it was built at startup
VARIABLES raw, coerced, anime_popular, built

matchVars == <<item_type, data, popular, req, res>>

ratingVars == <<rating_in, rating_out>>

cacheVars == <<requests_avail, cache, file, lock, th, hist, savers, ncalls, io_error>>

catalogVars == <<raw, coerced, anime_popular, built>>

vars == <<matchVars, ratingVars, cacheVars, catalogVars>>

(***************************************************************************)
(* Python values of a table cell: a tagged record, so that a missing cell  *)
(* (NaN), a number and a string stay distinct.                             *)
(***************************************************************************)
PyNone == [tag |-> "none"]

PyNaN == [tag |-> "nan"]

PyInt(n) == [tag |-> "int", val |-> n]

PyStr(s) == [tag |-> "str", val |-> s]

\* the outcome of a call: a returned value, or an exception that left it
Ret(v) == [raised |-> FALSE, val |-> v]

Raise == [raised |-> TRUE, val |-> <<>>]

(***************************************************************************)
(* Strings                                                                 *)
(***************************************************************************)
UpperChars == <<"A","B","C","D","E","F","G","H","I","J","K","L","M",
                "N","O","P","Q","R","S","T","U","V","W","X","Y","Z">>

LowerChars == <<"a","b","c","d","e","f","g","h","i","j","k","l","m",
                "n","o","p","q","r","s","t","u","v","w","x","y","z">>

DigitChars == <<"0","1","2","3","4","5","6","7","8","9">>

Range(s) == {s[i] : i \in DOMAIN s}

\* str.lower() on one character
LowerChar(c) ==
    IF \E i \in DOMAIN UpperChars : UpperChars[i] = c
    THEN LowerChars[CHOOSE i \in DOMAIN UpperChars : UpperChars[i] = c]
    ELSE c

\* str.lower()
Lower(s) == [i \in DOMAIN s |-> LowerChar(s[i])]

IsSpace(c) == c \in {" ", "\t", "\n"}

\* a character the regex class \w matches
IsWordChar(c) == c \in Range(UpperChars) \cup Range(LowerChars) \cup Range(DigitChars) \cup {"_"}

\* str.strip(): drop leading and trailing whitespace
Strip(s) ==
    LET keep == {i \in DOMAIN s : ~IsSpace(s[i])}
    IN  IF keep = {} THEN <<>>
        ELSE LET lo == CHOOSE i \in keep : \A j \in keep : i <= j
                 hi == CHOOSE i \in keep : \A j \in keep : j <= i
             IN  SubSeq(s, lo, hi)

\* s[i..i+Len(p)-1] = p
MatchAt(s, p, i) ==
    /\ i >= 1
    /\ i + Len(p) - 1 <= Len(s)
    /\ \A k \in 1..Len(p) : s[i + k - 1] = p[k]

\* str.startswith(p)
StartsWith(s, p) == MatchAt(s, p, 1)

\* p in s (substring containment; str.contains(p, regex=False))
Contains(s, p) == \E i \in 1..(Len(s) + 1) : MatchAt(s, p, i)

\* str.split(): the maximal runs of non-whitespace characters, in order
RECURSIVE SplitFrom(_, _, _)
SplitFrom(s, i, cur) ==
    IF i > Len(s)
    THEN IF cur = <<>> THEN <<>> ELSE <<cur>>
    ELSE IF IsSpace(s[i])
         THEN (IF cur = <<>> THEN <<>> ELSE <<cur>>) \o SplitFrom(s, i + 1, <<>>)
         ELSE SplitFrom(s, i + 1, Append(cur, s[i]))

Split(s) == SplitFrom(s, 1, <<>>)

(***************************************************************************)
(* The regular expression  r'\b' + word + r'\b'  (line 177).  The words    *)
(* the model feeds it are made of word characters and parentheses: a       *)
(* pattern with unbalanced parentheses does not compile (re.error), a      *)
(* balanced group matches what its content matches.                        *)
(***************************************************************************)
RECURSIVE ParenDepthOk(_, _, _)
ParenDepthOk(w, i, depth) ==
    IF i > Len(w) THEN depth = 0
    ELSE IF w[i] = "(" THEN ParenDepthOk(w, i + 1, depth + 1)
    ELSE IF w[i] = ")" THEN depth > 0 /\ ParenDepthOk(w, i + 1, depth - 1)
    ELSE ParenDepthOk(w, i + 1, depth)

\* re.compile succeeds
RegexCompiles(w) == ParenDepthOk(w, 1, 0)

NotParen(c) == c \notin {"(", ")"}

\* a \b position: between a \w character and a non-\w character (or an end)
IsBoundary(s, i) ==
    LET before == i > 1 /\ IsWordChar(s[i - 1])
        after  == i <= Len(s) /\ IsWordChar(s[i])
    IN  before # after

\* re.search(r'\b' + word + r'\b', s) finds a match (word compiles)
WordBoundaryMatch(s, w) ==
    LET p == SelectSeq(w, NotParen)
    IN  \E i \in 1..(Len(s) + 1) :
            /\ MatchAt(s, p, i)
            /\ IsBoundary(s, i)
            /\ IsBoundary(s, i + Len(p))

(***************************************************************************)
(* _convert_game_rating (lines 456-472)                                    *)
(***************************************************************************)
VeryPositive == <<"v","e","r","y"," ","p","o","s","i","t","i","v","e">>

Positive == <<"p","o","s","i","t","i","v","e">>

Mixed == <<"m","i","x","e","d">>

Negative == <<"n","e","g","a","t","i","v","e">>

VeryNegative == <<"v","e","r","y"," ","n","e","g","a","t","i","v","e">>

\* "if not rating_str": None, 0 and "" are falsy; NaN is truthy
Falsy(v) ==
    \/ v.tag = "none"
    \/ v.tag = "int" /\ v.val = 0
    \/ v.tag = "str" /\ v.val = <<>>

\* the if/elif ladder of lines 461-472, in the order the code tests it
RatingLadder(s) ==
    IF Contains(s, VeryPositive) THEN 5
    ELSE IF Contains(s, Positive) THEN 4
    ELSE IF Contains(s, Mixed) THEN 3
    ELSE IF Contains(s, Negative) THEN 2
    ELSE IF Contains(s, VeryNegative) THEN 1
    ELSE 0

\* _convert_game_rating: .lower() of a value that is not a string raises
\* AttributeError
ConvertGameRating(v) ==
    IF Falsy(v) THEN Ret(0)
    ELSE IF v.tag # "str" THEN Raise
    ELSE Ret(RatingLadder(Lower(v.val)))

(***************************************************************************)
(* TRAINED_MODELS[item_type] (lines 25, 83-120, 481): the item table       *)
(* "data" and the popularity artifact "popular" of the domain served.      *)
(*   data    : [loaded, rows]; a row is                                    *)
(*             [title, native_id, rating, popularity], native_id being     *)
(*             [has, val] (the anime_id / app_id column);                  *)
(*   popular : [loaded, entries]; anime: titles, game: row positions       *)
(*             (0-based, as data.iloc takes them).                         *)
(* req and res are the request being served and the list it returned.      *)
(***************************************************************************)
\* int(x) of lines 231, 247, 296, 329: a NaN or a non-numeric string raises
ToInt(v) ==
    IF v.tag = "int" THEN Ret(v.val)
    ELSE IF v.tag = "none" THEN Ret(0)
    ELSE Raise

\* the rating loop of lines 211-220 and 276-285: a missing or non-numeric
\* value leaves 0.0, and never raises
AnimeRating(v) == IF v.tag = "int" THEN v.val ELSE 0

\* str(item.get('anime_id', f"anime-{idx}")): the native id, else the
\* synthetic "<prefix>-<idx>"
ItemId(row, prefix, idx) ==
    IF row.native_id.has THEN <<"native", row.native_id.val>> ELSE <<prefix, idx>>

\* the dict built at lines 222-234, 238-251, 287-299 and 320-333;
\* similarity is in tenths (0.8 for a tier match, 0.5 for a popular item)
MakeItem(row, type, title, idx, similarity) ==
    LET pop == ToInt(row.popularity)
        rating == IF type = "anime" THEN Ret(AnimeRating(row.rating))
                  ELSE ConvertGameRating(row.rating)
    IN  IF rating.raised \/ pop.raised THEN Raise
        ELSE Ret([id |-> ItemId(row, type, idx),
                  title |-> title,
                  rating |-> rating.val,
                  type |-> type,
                  popularity |-> pop.val,
                  similarity |-> similarity])

\* _format_item(item, item_type, col, idx): idx is the row's index label,
\* its 0-based position in the table
FormatItem(row, type, idx) == MakeItem(row, type, row.title, idx, 8)

\* data[mask]: the positions (1-based) of the rows the boolean mask selects,
\* in table order
MatchingRows(rows, mask) ==
    SelectSeq([i \in DOMAIN rows |-> i], LAMBDA i : mask[i])

\* DataFrame.head(n) / list[:n] for n >= 0
Take(s, n) == SubSeq(s, 1, IF n < Len(s) THEN n ELSE Len(s))

Titles(items) == {items[k].title : k \in DOMAIN items}

(***************************************************************************)
(* _get_popular_items (lines 254-341)                                      *)
(***************************************************************************)
\* one iteration of the anime loop (lines 263-301): <<item>> or <<>>
PopularAnimeEntry(rows, name, i) ==
    LET found == MatchingRows(rows, [j \in DOMAIN rows |-> rows[j].title = name])
    IN  IF found = <<>> THEN <<>>
        ELSE LET it == MakeItem(rows[found[1]], "anime", name, i, 5)
             IN  IF it.raised THEN <<>> ELSE <<it.val>>

\* one iteration of the game loop (lines 310-335): data.iloc[idx] raises
\* IndexError past the table, and the except clause skips the entry
PopularGameEntry(rows, idx) ==
    IF idx + 1 \notin DOMAIN rows THEN <<>>
    ELSE LET row == rows[idx + 1]
             it == MakeItem(row, "game", row.title, idx, 5)
         IN  IF it.raised THEN <<>> ELSE <<it.val>>

RECURSIVE PopularLoop(_, _, _, _)
PopularLoop(rows, type, entries, i) ==
    IF i > Len(entries) THEN <<>>
    ELSE (IF type = "anime" THEN PopularAnimeEntry(rows, entries[i], i - 1)
          ELSE PopularGameEntry(rows, entries[i]))
         \o PopularLoop(rows, type, entries, i + 1)

\* the body of the outer try: slicing a popular artifact that did not load
\* (None) raises TypeError; a table that did not load raises in every
\* iteration, which the inner except skips
PopularBody(type, d, pop, limit) ==
    IF ~pop.loaded THEN Raise
    ELSE IF ~d.loaded THEN Ret(<<>>)
    ELSE Ret(PopularLoop(d.rows, type, Take(pop.entries, limit), 1))

\* mutant of GetPopularItems: the artifact is not cut to limit
GetPopularItemsNoSlice(type, d, pop, limit) ==
    LET r == PopularBody(type, d, pop, Len(pop.entries))
    IN  IF r.raised THEN Ret(<<>>) ELSE r

\* _get_popular_items(item_type, limit): the outer except returns []
GetPopularItems(type, d, pop, limit) ==
    LET r == PopularBody(type, d, pop, limit)
    IN  IF r.raised THEN Ret(<<>>) ELSE r

(***************************************************************************)
(* _get_recommendations_from_trained_model (lines 123-204)                 *)
(***************************************************************************)
\* the for loops of lines 148-149 (guarded = FALSE: no length test, no
\* duplicate test) and 154-159, 165-170, 179-184 (guarded = TRUE) over the
\* row positions cands, from position k on
RECURSIVE TierLoop(_, _, _, _, _, _, _)
TierLoop(acc, rows, type, cands, k, limit, guarded) ==
    IF k > Len(cands) THEN Ret(acc)
    ELSE IF guarded /\ Len(acc) >= limit THEN Ret(acc)
    ELSE IF guarded /\ rows[cands[k]].title \in Titles(acc)
         THEN TierLoop(acc, rows, type, cands, k + 1, limit, guarded)
    ELSE LET it == FormatItem(rows[cands[k]], type, cands[k] - 1)
         IN  IF it.raised THEN Raise
             ELSE TierLoop(Append(acc, it.val), rows, type, cands, k + 1, limit, guarded)

\* Strategy 1 (lines 146-149)
ExactTier(acc, rows, type, q, limit) ==
    TierLoop(acc, rows, type,
             Take(MatchingRows(rows, [i \in DOMAIN rows |-> Lower(rows[i].title) = q]), limit),
             1, limit, FALSE)

\* Strategy 2 (lines 152-159)
PrefixTier(acc, rows, type, q, limit) ==
    TierLoop(acc, rows, type,
             Take(MatchingRows(rows, [i \in DOMAIN rows |-> StartsWith(Lower(rows[i].title), q)]), limit \div 2),
             1, limit, TRUE)

\* Strategy 3 (lines 162-170)
ContainsTier(acc, rows, type, q, limit) ==
    IF Len(q) >= 4
    THEN TierLoop(acc, rows, type,
                  Take(MatchingRows(rows, [i \in DOMAIN rows |-> Contains(Lower(rows[i].title), q)]), limit \div 3),
                  1, limit, TRUE)
    ELSE Ret(acc)

\* Strategy 4, the loop over the words (lines 175-184), from word w on
RECURSIVE WordLoop(_, _, _, _, _, _)
WordLoop(acc, rows, type, words, w, limit) ==
    IF w > Len(words) THEN Ret(acc)
    ELSE IF Len(words[w]) < 3 THEN WordLoop(acc, rows, type, words, w + 1, limit)
    ELSE IF ~RegexCompiles(words[w]) THEN Raise
    ELSE LET r == TierLoop(acc, rows, type,
                           Take(MatchingRows(rows,
                                    [i \in DOMAIN rows |->
                                        WordBoundaryMatch(Lower(rows[i].title), words[w])]),
                                limit \div 4),
                           1, limit, TRUE)
         IN  IF r.raised THEN Raise
             ELSE WordLoop(r.val, rows, type, words, w + 1, limit)

\* Strategy 4 (lines 173-184)
WordTier(acc, rows, type, q, limit) ==
    IF Len(Split(q)) > 1 THEN WordLoop(acc, rows, type, Split(q), 1, limit)
    ELSE Ret(acc)

\* the loop of lines 193-198 over the popular items, from item k on
RECURSIVE PadLoop(_, _, _, _)
PadLoop(acc, items, k, limit) ==
    IF k > Len(items) THEN acc
    ELSE LET nxt == IF items[k].title \in Titles(acc) THEN acc
                    ELSE Append(acc, items[k])
         IN  IF Len(nxt) >= limit THEN nxt
             ELSE PadLoop(nxt, items, k + 1, limit)

\* lines 189-198
Padding(acc, type, d, pop, limit) ==
    IF Len(acc) < limit
    THEN PadLoop(acc, GetPopularItems(type, d, pop, limit - Len(acc)).val, 1, limit)
    ELSE acc

\* mutant of Tiers: the prefix tier runs before the exact tier
TiersPrefixFirst(rows, type, q, limit) ==
    LET t1 == PrefixTier(<<>>, rows, type, q, limit)
        t2 == IF t1.raised THEN Raise ELSE ExactTier(t1.val, rows, type, q, limit)
        t3 == IF t2.raised THEN Raise ELSE ContainsTier(t2.val, rows, type, q, limit)
    IN  IF t3.raised THEN Raise ELSE WordTier(t3.val, rows, type, q, limit)

\* mutant of Tiers: the contains tier runs before the prefix tier
TiersContainsFirst(rows, type, q, limit) ==
    LET t1 == ExactTier(<<>>, rows, type, q, limit)
        t2 == IF t1.raised THEN Raise ELSE ContainsTier(t1.val, rows, type, q, limit)
        t3 == IF t2.raised THEN Raise ELSE PrefixTier(t2.val, rows, type, q, limit)
    IN  IF t3.raised THEN Raise ELSE WordTier(t3.val, rows, type, q, limit)

\* the four tiers in order (lines 143-186); an exception in one leaves
\* the rest unexecuted
Tiers(rows, type, q, limit) ==
    LET t1 == ExactTier(<<>>, rows, type, q, limit)
        t2 == IF t1.raised THEN Raise ELSE PrefixTier(t1.val, rows, type, q, limit)
        t3 == IF t2.raised THEN Raise ELSE ContainsTier(t2.val, rows, type, q, limit)
    IN  IF t3.raised THEN Raise ELSE WordTier(t3.val, rows, type, q, limit)

\* the body of the try (lines 135-200) for a non-empty title_lower
TryBody(type, d, pop, q, limit) ==
    LET t == Tiers(d.rows, type, q, limit)
    IN  IF t.raised THEN Raise
        ELSE Ret(Take(Padding(t.val, type, d, pop, limit), limit))

\* mutant of TitleLower: the query is lower-cased and not trimmed
TitleLowerNoStrip(title) == Lower(title)

\* title.lower().strip() (line 136)
TitleLower(title) == Strip(Lower(title))

\* mutant of Recommend: no except clause, a failure of the tiers leaves
\* the call as an exception
RecommendNoExcept(title, type, d, pop, limit) ==
    IF ~d.loaded THEN [out |-> Ret(<<>>), path |-> "nodata"]
    ELSE IF TitleLower(title) = <<>>
         THEN [out |-> GetPopularItems(type, d, pop, limit), path |-> "popular"]
    ELSE LET b == TryBody(type, d, pop, TitleLower(title), limit)
         IN  [out |-> b, path |-> IF b.raised THEN "except" ELSE "tiers"]

\* _get_recommendations_from_trained_model(title, item_type, limit): the
\* outcome and the path taken: "nodata" (line 132), "popular" (line 140),
\* "tiers" (line 200) or "except" (line 204)
Recommend(title, type, d, pop, limit) ==
    IF ~d.loaded THEN [out |-> Ret(<<>>), path |-> "nodata"]
    ELSE IF TitleLower(title) = <<>>
         THEN [out |-> GetPopularItems(type, d, pop, limit), path |-> "popular"]
    ELSE LET b == TryBody(type, d, pop, TitleLower(title), limit)
         IN  IF b.raised
             THEN [out |-> GetPopularItems(type, d, pop, limit), path |-> "except"]
             ELSE [out |-> b, path |-> "tiers"]

(***************************************************************************)
(* The anime image cache (lines 27-36, 397-453)                            *)
(*   cache  : ANIME_IMG_CACHE, a function from the keys it holds to urls   *)
(*   file   : anime_image_cache.json, [state, content]                     *)
(*   lock   : 0 when _anime_img_cache_lock is free, a request thread's     *)
(*            number, or Saver when a _save thread holds it                *)
(*   th[t]  : where request thread t is in _get_anime_image_url:           *)
(*            [pc, key, seen, url, looked]                                 *)
(*   hist[t]: the last two calls thread t completed, [key, ret, looked]    *)
(***************************************************************************)
NThreads == 2

MaxCalls == 2

Threads == 1..NThreads

Saver == -1

\* Python None as a returned url, and a key the dict does not hold
NoUrl == <<>>

K_Nar == <<"N","a","r">>

\* the titles the callers pass: an empty one, one with blanks around it
CallTitles == {<<>>, <<" ","N","a","r"," ">>, <<"B","l","e">>}

Http == <<"h","t","t","p">>

U_1 == <<"h","t","t","p",":","1">>

U_2 == <<"h","t","t","p",":","2">>

U_Bad == <<"f","t","p",":","3">>

\* what requests.get and the parsing of its reply come to (lines 434-445):
\* a url, no result, or an exception
NetOutcomes ==
    {[kind |-> "ok", url |-> u] : u \in {U_1, U_2, U_Bad}}
    \cup {[kind |-> "empty", url |-> NoUrl], [kind |-> "fail", url |-> NoUrl]}

EmptyCache == [k \in {} |-> NoUrl]

FileAbsent == [state |-> "absent", content |-> EmptyCache]

FileMalformed == [state |-> "malformed", content |-> EmptyCache]

FileOf(c) == [state |-> "ok", content |-> c]

\* lines 29-36: the dict is the file's content, {} when there is no file or
\* json.load raises
LoadCache(f) == IF f.state = "ok" THEN f.content ELSE EmptyCache

\* key in ANIME_IMG_CACHE (line 428)
InCache(c, key) == key \in DOMAIN c

\* ANIME_IMG_CACHE[key] under the test of line 428; NoUrl when the key is
\* not there
CacheGet(c, key) == IF InCache(c, key) THEN c[key] ELSE NoUrl

\* mutant of StoreUrl: the url is not written into the shared dict
StoreUrlDropped(c, key, url) == c

\* ANIME_IMG_CACHE[key] = url (line 448)
StoreUrl(c, key, url) ==
    [k \in DOMAIN c \cup {key} |-> IF k = key THEN url ELSE c[k]]

\* key = title.strip() (line 426)
CacheKey(title) == Strip(title)

\* isinstance(url, str) and url.startswith("http") (line 446)
IsHttpUrl(url) == url # NoUrl /\ StartsWith(url, Http)

Idle == [pc |-> "idle", key |-> <<>>, seen |-> NoUrl, url |-> NoUrl, looked |-> FALSE]

\* the files the process may find at startup: none, one that json.load
\* rejects, one an earlier run saved
StartFiles == {FileAbsent, FileMalformed, FileOf(StoreUrl(EmptyCache, K_Nar, U_1))}

\* the state of the cache variables in the specifications of the other
\* components
CacheQuiet ==
    /\ requests_avail = TRUE
    /\ cache = EmptyCache
    /\ file = FileAbsent
    /\ lock = 0
    /\ th = [t \in Threads |-> Idle]
    /\ hist = [t \in Threads |-> <<>>]
    /\ savers = 0
    /\ ncalls = 0
    /\ io_error = FALSE

\* no record given to _coerce_record yet
NoRaw == [given |-> FALSE, obj |-> <<>>, type |-> "anime", idx |-> 0]

NotCoerced == [called |-> FALSE, none |-> TRUE, item |-> <<>>]

\* the state of the catalog variables in the specifications of the other
\* components
CatalogQuiet ==
    /\ raw = NoRaw
    /\ coerced = NotCoerced
    /\ anime_popular = <<>>
    /\ built = <<>>

(***************************************************************************)
(* The inputs of the matcher: tables, popularity artifacts, queries        *)
(***************************************************************************)
MaxRows == 2

MaxPopular == 2

MaxLimit == 4

SeqsUpTo(S, n) == UNION {[1..k -> S] : k \in 0..n}

\* a ranking names each entry once
Injective(s) == \A i, j \in DOMAIN s : s[i] = s[j] => i = j

NoId == [has |-> FALSE, val |-> 0]

NativeId(n) == [has |-> TRUE, val |-> n]

T_Abc == <<"A","b","c">>

T_ABC == <<"A","B","C">>

T_AbcdEf == <<"A","b","c","d"," ","e","f">>

T_XyAbcd == <<"X","y"," ","a","b","c","d">>

T_Zzz == <<"Z","z","z">>

L_VeryNegative == <<"V","e","r","y"," ","N","e","g","a","t","i","v","e">>

L_Mixed == <<"M","i","x","e","d">>

\* the rows a table is made of; the last has a missing popularity cell,
\* the second a numeric rating (an anime score)
RowPool ==
    { [title |-> T_Abc, native_id |-> NoId, rating |-> PyStr(L_VeryNegative), popularity |-> PyInt(3)],
      [title |-> T_ABC, native_id |-> NativeId(7), rating |-> PyInt(8), popularity |-> PyInt(2)],
      [title |-> T_AbcdEf, native_id |-> NoId, rating |-> PyStr(L_Mixed), popularity |-> PyInt(1)],
      [title |-> T_XyAbcd, native_id |-> NativeId(9), rating |-> PyNone, popularity |-> PyNone],
      [title |-> T_Abc, native_id |-> NoId, rating |-> PyStr(L_Mixed), popularity |-> PyNaN] }

NotLoaded == [loaded |-> FALSE, rows |-> <<>>]

Tables == {NotLoaded} \cup {[loaded |-> TRUE, rows |-> r] : r \in SeqsUpTo(RowPool, MaxRows) \ {<<>>}}

\* anime: an ordered list of titles (one of them in no table);
\* game: the index of the popular frame, used as row positions
PopularEntries(type) ==
    IF type = "anime" THEN {T_Abc, T_AbcdEf, T_Zzz} ELSE 0..MaxRows

PopularArtifacts(type) ==
    {[loaded |-> FALSE, entries |-> <<>>]}
    \cup {[loaded |-> TRUE, entries |-> e] :
             e \in {x \in SeqsUpTo(PopularEntries(type), MaxPopular) : Injective(x)}}

Queries ==
    { <<>>,
      <<" "," ">>,
      <<" ","A","b","c"," ">>,
      <<"a","b","c","d">>,
      <<"a","b","c","d"," ","x","y">>,
      <<"a","b","c"," ","(","e","f">> }

\* the converter has not been called yet
NotConverted == [called |-> FALSE, out |-> Raise]

NoRequest == [op |-> "none", query |-> <<>>, limit |-> 0]

NoResult == [out |-> Ret(<<>>), path |-> "none"]

MatchInit ==
    /\ item_type \in {"anime", "game"}
    /\ data \in Tables
    /\ popular \in PopularArtifacts(item_type)
    /\ req = NoRequest
    /\ res = NoResult
    /\ rating_in = PyNone
    /\ rating_out = NotConverted
    /\ CacheQuiet
    /\ CatalogQuiet

\* a caller invokes the matcher (lines 714, 732)
CallRecommend(q, limit) ==
    /\ req = NoRequest
    /\ req' = [op |-> "recommend", query |-> q, limit |-> limit]
    /\ res' = Recommend(q, item_type, data, popular, limit)
    /\ UNCHANGED <<item_type, data, popular, ratingVars, cacheVars, catalogVars>>

\* a caller invokes _get_popular_items (lines 140, 190, 204)
CallPopular(limit) ==
    /\ req = NoRequest
    /\ req' = [op |-> "popular", query |-> <<>>, limit |-> limit]
    /\ res' = [out |-> GetPopularItems(item_type, data, popular, limit), path |-> "popular"]
    /\ UNCHANGED <<item_type, data, popular, ratingVars, cacheVars, catalogVars>>

\* the caller has taken the list (lines 716, 739); the next request may start
Respond ==
    /\ req # NoRequest
    /\ req' = NoRequest
    /\ res' = NoResult
    /\ UNCHANGED <<item_type, data, popular, ratingVars, cacheVars, catalogVars>>

MatchNext ==
    \/ \E q \in Queries, limit \in 1..MaxLimit : CallRecommend(q, limit)
    \/ \E limit \in 0..MaxLimit : CallPopular(limit)
    \/ Respond

SpecMatch == MatchInit /\ [][MatchNext]_vars

(***************************************************************************)
(* Claims about the matcher, checked under SpecMatch                       *)
(***************************************************************************)
IsRecommend == req.op = "recommend"

\* the query as the tiers see it
Q == TitleLower(req.query)

\* the list the call returned
Result == res.out.val

\* popularity_order: every entry of the artifact that resolves to an item
PopularityOrder == GetPopularItems(item_type, data, popular, MaxPopular).val

\* the positions of the rows whose title equals the query (lower-cased)
ExactRows == MatchingRows(data.rows, [i \in DOMAIN data.rows |-> Lower(data.rows[i].title) = Q])

\* Result[k] is the item of the table row at position i
IsItemOfRow(k, i) ==
    /\ Result[k].title = data.rows[i].title
    /\ Result[k].id = ItemId(data.rows[i], item_type, i - 1)
    /\ Result[k].similarity = 8

\* C1: the list returned by a recommend call with limit >= 1 holds no two
\* items with the same title.
C1_NoDuplicateTitles ==
    (IsRecommend /\ req.limit >= 1) =>
        \A i, j \in DOMAIN Result : i # j => Result[i].title # Result[j].title

\* C2: when the tiers of a non-empty query complete with fewer than limit
\* items, the padded result is shorter than limit only if every title of
\* popularity_order is already in it.
C2_PaddingFillsToLimit ==
    (IsRecommend /\ res.path = "tiers" /\ Len(Result) < req.limit) =>
        Titles(PopularityOrder) \subseteq Titles(Result)

\* C3 as stated: every row whose title equals the query is in the result,
\* before every item of the result whose title does not equal the query.
C3_EveryExactMatchIncludedFirst ==
    (IsRecommend /\ req.limit >= 1 /\ data.loaded /\ Q # <<>>) =>
        \A i \in DOMAIN data.rows :
            Lower(data.rows[i].title) = Q =>
                /\ \E k \in DOMAIN Result : IsItemOfRow(k, i)
                /\ \A k, m \in DOMAIN Result :
                      (IsItemOfRow(k, i) /\ Lower(Result[m].title) # Q) => k < m

\* C3 amended: when matching completes without an internal error, the
\* result begins with the first min(limit, n) of the n rows whose title
\* equals the query, in table order, so each of them precedes every other
\* item.
C3_ExactMatchesLeadResult ==
    (IsRecommend /\ req.limit >= 1 /\ res.path = "tiers") =>
        /\ Len(Result) >= Len(Take(ExactRows, req.limit))
        /\ \A k \in DOMAIN Take(ExactRows, req.limit) :
              /\ IsItemOfRow(k, ExactRows[k])
              /\ Result[k] = FormatItem(data.rows[ExactRows[k]], item_type, ExactRows[k] - 1).val

\* C3 witness: an exact match is followed by an item a later tier matched
C3_Witness ==
    /\ IsRecommend /\ res.path = "tiers" /\ ExactRows # <<>>
    /\ \E m \in DOMAIN Result :
          /\ m > Len(ExactRows)
          /\ Lower(Result[m].title) # Q
          /\ Result[m].similarity = 8

\* C4: a query that is empty after trimming returns exactly
\* _get_popular_items(item_type, limit), and no tier is attempted.
C4_EmptyQueryIsPopular ==
    (IsRecommend /\ Strip(req.query) = <<>>) =>
        /\ res.out = GetPopularItems(item_type, data, popular, req.limit)
        /\ res.path \in {"popular", "nodata"}

\* C4 witness: a whitespace-only query answered with a non-empty list
C4_Witness ==
    /\ IsRecommend /\ req.query # <<>> /\ Strip(req.query) = <<>>
    /\ Len(Result) >= 2

\* a word of a multi-word query is no valid regular expression
HasBadRegexWord ==
    /\ Len(Split(Q)) > 1
    /\ \E w \in DOMAIN Split(Q) : Len(Split(Q)[w]) >= 3 /\ ~RegexCompiles(Split(Q)[w])

\* a row of the exact tier cannot be formatted into an item
HasBadExactRow ==
    \E k \in DOMAIN Take(ExactRows, req.limit) :
        \/ data.rows[ExactRows[k]].popularity.tag = "nan"
        \/ item_type = "game" /\ data.rows[ExactRows[k]].rating.tag \in {"int", "nan"}

\* C5: a recommend call never raises, and when a step of the tiers fails it
\* returns exactly _get_popular_items(item_type, limit): no tier match
\* (similarity 0.8) is in the list.
C5_FailureFallsBackToPopular ==
    IsRecommend =>
        /\ ~res.out.raised
        /\ (data.loaded /\ Q # <<>> /\ (HasBadRegexWord \/ HasBadExactRow)) => res.path = "except"
        /\ res.path = "except" =>
              /\ res.out = GetPopularItems(item_type, data, popular, req.limit)
              /\ \A k \in DOMAIN Result : Result[k].similarity = 5

\* C5 witness: the tiers had matched rows before a word failed to compile,
\* and the fallback returned popular items
C5_Witness ==
    /\ IsRecommend /\ res.path = "except" /\ HasBadRegexWord /\ ~HasBadExactRow
    /\ req.limit \div 4 >= 1
    /\ \E i \in DOMAIN data.rows : WordBoundaryMatch(Lower(data.rows[i].title), Split(Q)[1])
    /\ Len(Result) >= 1

\* the popularity entry at position k resolves to a row that formats
EntryResolves(k) ==
    LET e == popular.entries[k]
        Formats(row) ==
            /\ row.popularity.tag \in {"int", "none"}
            /\ item_type = "game" => (row.rating.tag = "str" \/ Falsy(row.rating))
    IN  IF item_type = "anime"
        THEN /\ \E i \in DOMAIN data.rows : data.rows[i].title = e
             /\ Formats(data.rows[CHOOSE i \in DOMAIN data.rows :
                                     /\ data.rows[i].title = e
                                     /\ \A j \in DOMAIN data.rows :
                                           data.rows[j].title = e => i <= j])
        ELSE e + 1 \in DOMAIN data.rows /\ Formats(data.rows[e + 1])

\* C6: with a loaded table, _get_popular_items(item_type, limit) for
\* limit >= 0 never raises and returns at most limit items: one for each of
\* the first limit entries that resolves and formats, the others skipped.
C6_PopularAtMostLimit ==
    (req.op = "popular" /\ data.loaded /\ req.limit >= 0) =>
        /\ ~res.out.raised
        /\ Len(Result) <= req.limit
        /\ popular.loaded =>
              Len(Result) = Cardinality({k \in DOMAIN Take(popular.entries, req.limit) :
                                            EntryResolves(k)})

\* C6 witness: an entry was skipped and a later one returned
C6_Witness ==
    /\ req.op = "popular" /\ data.loaded /\ popular.loaded
    /\ req.limit >= 2 /\ Len(popular.entries) >= 2
    /\ ~EntryResolves(1) /\ EntryResolves(2)
    /\ Len(Result) = 1

(***************************************************************************)
(* The rating converter on its own: the labels of the games table          *)
(* (rating column), in the three casings, and the values that are no       *)
(* string                                                                  *)
(***************************************************************************)
UpperChar(c) ==
    IF \E i \in DOMAIN LowerChars : LowerChars[i] = c
    THEN UpperChars[CHOOSE i \in DOMAIN LowerChars : LowerChars[i] = c]
    ELSE c

Upper(s) == [i \in DOMAIN s |-> UpperChar(s[i])]

Qualifiers == {<<>>, <<"V","e","r","y"," ">>, <<"M","o","s","t","l","y"," ">>, <<"O","v","e","r","w","h","e","l","m","i","n","g","l","y"," ">>}

Sentiments == {<<"P","o","s","i","t","i","v","e">>, <<"M","i","x","e","d">>, <<"N","e","g","a","t","i","v","e">>}

Suffixes == {<<>>, <<" ","R","e","v","i","e","w","s">>}

Labels ==
    UNION {{l, Lower(l), Upper(l)} :
              l \in {a \o b \o c : a \in Qualifiers, b \in Sentiments, c \in Suffixes}}

RatingInputs ==
    {PyStr(l) : l \in Labels} \cup {PyStr(<<>>), PyNone, PyNaN, PyInt(0), PyInt(8)}

RatingInit ==
    /\ rating_in \in RatingInputs
    /\ rating_out = NotConverted
    /\ item_type = "game"
    /\ data = NotLoaded
    /\ popular = [loaded |-> FALSE, entries |-> <<>>]
    /\ req = NoRequest
    /\ res = NoResult
    /\ CacheQuiet
    /\ CatalogQuiet

\* a caller converts a rating (lines 237, 318, 359, 619)
Convert ==
    /\ ~rating_out.called
    /\ rating_out' = [called |-> TRUE, out |-> ConvertGameRating(rating_in)]
    /\ UNCHANGED <<rating_in, matchVars, cacheVars, catalogVars>>

RatingNext == Convert

SpecRating == RatingInit /\ [][RatingNext]_vars

\* C7: every label that contains "very negative" (in any casing) converts
\* to 1.0, as every label that contains "very positive" converts to 5.0.
C7_VeryNegativeIsOne ==
    (rating_out.called /\ rating_in.tag = "str") =>
        /\ Contains(Lower(rating_in.val), VeryNegative) =>
              (~rating_out.out.raised /\ rating_out.out.val = 1)
        /\ Contains(Lower(rating_in.val), VeryPositive) =>
              (~rating_out.out.raised /\ rating_out.out.val = 5)

(***************************************************************************)
(* The image cache: request threads in _get_anime_image_url, _save threads *)
(***************************************************************************)
CacheInit ==
    /\ requests_avail \in BOOLEAN
    /\ file \in StartFiles
    /\ cache = LoadCache(file)
    /\ lock = 0
    /\ th = [t \in Threads |-> Idle]
    /\ hist = [t \in Threads |-> <<>>]
    /\ savers = 0
    /\ ncalls = 0
    /\ io_error = FALSE
    /\ item_type = "anime"
    /\ data = NotLoaded
    /\ popular = [loaded |-> FALSE, entries |-> <<>>]
    /\ req = NoRequest
    /\ res = NoResult
    /\ rating_in = PyNone
    /\ rating_out = NotConverted
    /\ CatalogQuiet

\* hist[t] after thread t returns ret: the last two calls are kept
Returned(t, key, ret) ==
    LET call == [key |-> key, ret |-> ret, looked |-> th[t].looked, seen |-> th[t].seen]
    IN  IF Len(hist[t]) < 2 THEN Append(hist[t], call) ELSE <<hist[t][2], call>>

\* thread t leaves _get_anime_image_url with ret
Complete(t, key, ret) ==
    /\ th' = [th EXCEPT ![t] = Idle]
    /\ hist' = [hist EXCEPT ![t] = Returned(t, key, ret)]

\* lines 423-426: a request thread enters with title; "if not title" returns
\* None at once
Call(t, title) ==
    /\ th[t].pc = "idle"
    /\ ncalls < MaxCalls
    /\ ncalls' = ncalls + 1
    /\ IF title = <<>>
       THEN Complete(t, title, NoUrl)
       ELSE /\ th' = [th EXCEPT ![t] = [Idle EXCEPT !.pc = "lock_read", !.key = CacheKey(title)]]
            /\ UNCHANGED hist
    /\ UNCHANGED <<requests_avail, cache, file, lock, savers, io_error, matchVars, ratingVars, catalogVars>>

\* line 427-429: the lock is taken and the dict read under it
AcquireRead(t) ==
    /\ th[t].pc = "lock_read"
    /\ lock = 0
    /\ lock' = t
    /\ th' = [th EXCEPT ![t].pc = "read", ![t].seen = CacheGet(cache, th[t].key)]
    /\ UNCHANGED <<requests_avail, cache, file, hist, savers, ncalls, io_error, matchVars, ratingVars, catalogVars>>

\* mutant of CacheHit: the "requests is None" test of line 430 is made
\* before the dict is consulted
CacheHitIfRequests(t) == requests_avail /\ InCache(cache, th[t].key)

\* the test of line 428 as thread t makes it
CacheHit(t) == InCache(cache, th[t].key)

\* lines 428-429: the with block is left, by the return of a hit or to
\* line 430
ReleaseRead(t) ==
    /\ th[t].pc = "read"
    /\ lock' = 0
    /\ IF CacheHit(t)
       THEN Complete(t, th[t].key, cache[th[t].key])
       ELSE /\ th' = [th EXCEPT ![t].pc = "miss"]
            /\ UNCHANGED hist
    /\ UNCHANGED <<requests_avail, cache, file, savers, ncalls, io_error, matchVars, ratingVars, catalogVars>>

\* lines 430-438: without requests the call returns None, else the lookup
\* is sent
Miss(t) ==
    /\ th[t].pc = "miss"
    /\ IF requests_avail
       THEN /\ th' = [th EXCEPT ![t].pc = "net", ![t].looked = TRUE]
            /\ UNCHANGED hist
       ELSE Complete(t, th[t].key, NoUrl)
    /\ UNCHANGED <<requests_avail, cache, file, lock, savers, ncalls, io_error, matchVars, ratingVars, catalogVars>>

\* lines 439-446, 451-453: the reply; anything but a well-formed url
\* returns None
NetReply(t, o) ==
    /\ th[t].pc = "net"
    /\ IF o.kind = "ok" /\ IsHttpUrl(o.url)
       THEN /\ th' = [th EXCEPT ![t].pc = "lock_store", ![t].url = o.url]
            /\ UNCHANGED hist
       ELSE Complete(t, th[t].key, NoUrl)
    /\ UNCHANGED <<requests_avail, cache, file, lock, savers, ncalls, io_error, matchVars, ratingVars, catalogVars>>

\* mutant of AcquireStore: line 448 without the with block of line 447
AcquireStoreNoLock(t) ==
    /\ th[t].pc = "lock_store"
    /\ cache' = StoreUrl(cache, th[t].key, th[t].url)
    /\ th' = [th EXCEPT ![t].pc = "store"]
    /\ UNCHANGED <<requests_avail, file, lock, hist, savers, ncalls, io_error, matchVars, ratingVars, catalogVars>>

\* lines 447-448: the lock is taken and the url written under it
AcquireStore(t) ==
    /\ th[t].pc = "lock_store"
    /\ lock = 0
    /\ lock' = t
    /\ cache' = StoreUrl(cache, th[t].key, th[t].url)
    /\ th' = [th EXCEPT ![t].pc = "store"]
    /\ UNCHANGED <<requests_avail, file, hist, savers, ncalls, io_error, matchVars, ratingVars, catalogVars>>

\* line 448: the with block is left
ReleaseStore(t) ==
    /\ th[t].pc = "store"
    /\ lock' = 0
    /\ th' = [th EXCEPT ![t].pc = "persist"]
    /\ UNCHANGED <<requests_avail, cache, file, hist, savers, ncalls, io_error, matchVars, ratingVars, catalogVars>>

\* mutant of Persist: the url is returned and no _save thread is started
PersistNoSave(t) ==
    /\ th[t].pc = "persist"
    /\ Complete(t, th[t].key, th[t].url)
    /\ UNCHANGED <<requests_avail, cache, file, lock, savers, ncalls, io_error, matchVars, ratingVars, catalogVars>>

\* lines 449-450 and 405-406: a _save thread is started and the url returned
Persist(t) ==
    /\ th[t].pc = "persist"
    /\ savers' = savers + 1
    /\ Complete(t, th[t].key, th[t].url)
    /\ UNCHANGED <<requests_avail, cache, file, lock, ncalls, io_error, matchVars, ratingVars, catalogVars>>

\* line 400: a _save thread takes the lock
SaveAcquire ==
    /\ savers > 0
    /\ lock = 0
    /\ lock' = Saver
    /\ savers' = savers - 1
    /\ UNCHANGED <<requests_avail, cache, file, th, hist, ncalls, io_error, matchVars, ratingVars, catalogVars>>

\* lines 401-404: the file is written with the lock held, and the lock
\* released; an I/O error (open fails) is swallowed and leaves the file as
\* it was
SaveWrite(ok) ==
    /\ lock = Saver
    /\ file' = IF ok THEN FileOf(cache) ELSE file
    /\ io_error' = (io_error \/ ~ok)
    /\ lock' = 0
    /\ UNCHANGED <<requests_avail, cache, th, hist, savers, ncalls, matchVars, ratingVars, catalogVars>>

CacheNext ==
    \/ \E t \in Threads, title \in CallTitles : Call(t, title)
    \/ \E t \in Threads : AcquireRead(t)
    \/ \E t \in Threads : ReleaseRead(t)
    \/ \E t \in Threads : Miss(t)
    \/ \E t \in Threads, o \in NetOutcomes : NetReply(t, o)
    \/ \E t \in Threads : AcquireStore(t)
    \/ \E t \in Threads : ReleaseStore(t)
    \/ \E t \in Threads : Persist(t)
    \/ SaveAcquire
    \/ \E ok \in BOOLEAN : SaveWrite(ok)

SpecCache == CacheInit /\ [][CacheNext]_vars

(***************************************************************************)
(* Claims about the image cache, checked under SpecCache                   *)
(***************************************************************************)
\* thread t has completed two calls in a row for the same key
TwoCallsSameKey(t) == Len(hist[t]) = 2 /\ hist[t][1].key = hist[t][2].key

\* C8 as stated: whatever the lookup comes to, two sequential calls for a
\* title make at most one lookup in total and the second returns the value
\* the cache held.
C8_AtMostOneLookupAnyOutcome ==
    \A t \in Threads :
        TwoCallsSameKey(t) =>
            /\ ~(hist[t][1].looked /\ hist[t][2].looked)
            /\ hist[t][2].ret = hist[t][2].seen

\* C8 amended: when the first of two sequential calls for a title returned
\* a url (a hit, or a lookup that was stored), the second makes no lookup
\* and returns the url it read from the cache under the lock.
C8_SecondCallServedFromCache ==
    /\ \A t \in Threads :
          (TwoCallsSameKey(t) /\ hist[t][1].ret # NoUrl) =>
              /\ ~hist[t][2].looked
              /\ hist[t][2].ret # NoUrl
              /\ hist[t][2].ret = hist[t][2].seen
    /\ \A t \in Threads :
          th[t].pc = "read" => th[t].seen = CacheGet(cache, th[t].key)

\* C8 witness: a lookup that succeeded, then a hit for the same title
C8_Witness ==
    \E t \in Threads :
        /\ TwoCallsSameKey(t)
        /\ hist[t][1].looked /\ hist[t][1].ret # NoUrl
        /\ ~hist[t][2].looked /\ hist[t][2].ret = cache[hist[t][2].key]

\* C9 as stated: without the requests module every call returns None,
\* whatever the cache holds.
C9_AbsentCapabilityReturnsNull ==
    ~requests_avail =>
        \A t \in Threads : \A k \in DOMAIN hist[t] : hist[t][k].ret = NoUrl

\* C9 amended: without the requests module no call makes a lookup, and
\* each returns the url the cache holds for the trimmed title, None only
\* when it holds none.
C9_AbsentCapabilityServesCacheOnly ==
    ~requests_avail =>
        /\ cache = LoadCache(file)
        /\ \A t \in Threads : th[t].pc \notin {"net", "lock_store", "store", "persist"}
        /\ \A t \in Threads : \A k \in DOMAIN hist[t] :
              /\ ~hist[t][k].looked
              /\ hist[t][k].ret = CacheGet(cache, hist[t][k].key)

\* C9 witness: without requests, a cached url returned and a None returned
C9_Witness ==
    /\ ~requests_avail
    /\ \E t \in Threads : \E k \in DOMAIN hist[t] : hist[t][k].ret # NoUrl
    /\ \E t \in Threads : \E k \in DOMAIN hist[t] :
          hist[t][k].key # <<>> /\ hist[t][k].ret = NoUrl

\* C10: no request thread waits for the cache lock while a _save thread
\* holds it to write the side file.
C10_NoRequestWaitsDuringSave ==
    ~(/\ lock = Saver
      /\ \E t \in Threads : th[t].pc \in {"lock_read", "lock_store"})

\* the positions of thread t inside a with block of the lock: the dict test
\* and read of lines 428-429, the dict write of line 448
InDictAccess(t) == th[t].pc \in {"read", "store"}

\* C11: every read and write of the mapping (lookup, insert, the save's
\* serialization) is made by the thread that holds the lock, so one thread
\* at a time; and the lock is held by a request thread only inside its dict
\* access, never while its network lookup is in flight.
C11_LockDiscipline ==
    /\ [](/\ \A t \in Threads : InDictAccess(t) <=> lock = t
          /\ \A t, u \in Threads : (InDictAccess(t) /\ InDictAccess(u)) => t = u
          /\ \A t \in Threads : th[t].pc = "net" => lock # t)
    /\ [][/\ cache' # cache => \E t \in Threads : lock' = t /\ th'[t].pc = "store"
          /\ file' # file => lock = Saver
          /\ \A t \in Threads : th'[t].seen # th[t].seen =>
                 (th'[t].pc = "idle" \/ lock' = t)]_vars

\* C11 witness: two request threads in their network lookups at once, for
\* different uncached titles, the lock free
C11_Witness ==
    /\ lock = 0
    /\ \E t, u \in Threads :
          /\ th[t].pc = "net" /\ th[u].pc = "net"
          /\ th[t].key # th[u].key
          /\ ~InCache(cache, th[t].key) /\ ~InCache(cache, th[u].key)

(***************************************************************************)
(* _coerce_record (lines 344-394): a raw record is a function from the     *)
(* keys it has to their values                                             *)
(***************************************************************************)
\* obj.get(k)
Get(obj, k) == IF k \in DOMAIN obj THEN obj[k] ELSE PyNone

\* obj.get(k1) or obj.get(k2) or ...: the first truthy value from position
\* i on; None stands for a chain with no truthy value
RECURSIVE FirstTruthy(_, _, _)
FirstTruthy(obj, keys, i) ==
    IF i > Len(keys) THEN PyNone
    ELSE IF ~Falsy(Get(obj, keys[i])) THEN Get(obj, keys[i])
    ELSE FirstTruthy(obj, keys, i + 1)

\* str(n) for n >= 0
RECURSIVE IntStr(_)
IntStr(n) ==
    IF n < 10 THEN <<DigitChars[n + 1]>>
    ELSE IntStr(n \div 10) \o <<DigitChars[(n % 10) + 1]>>

\* str(v)
StrOf(v) ==
    CASE v.tag = "str" -> v.val
      [] v.tag = "int" -> IntStr(v.val)
      [] v.tag = "nan" -> <<"n","a","n">>
      [] OTHER -> <<"N","o","n","e">>

TitleKeys == <<"title", "name", "Name", "app_name", "anime", "game">>

\* line 346: the title chain; its last operand is str(...) of a chain that
\* ends in f"Item {idx}"
CoerceTitle(obj, idx) ==
    LET first == FirstTruthy(obj, TitleKeys, 1)
        last == FirstTruthy(obj, <<"Name", "Title">>, 1)
    IN  IF ~Falsy(first) THEN first
        ELSE IF ~Falsy(last) THEN PyStr(StrOf(last))
        ELSE PyStr(<<"I","t","e","m"," ">> \o IntStr(idx))

\* line 383: a title longer than this is rejected
TitleLimit == 300

\* line 383: the markers of a leaked internal representation
LeakMarkers ==
    { <<"p","a","n","d","a","s",".","c","o","r","e">>,
      <<"n","u","m","p","y",".","c","o","r","e">>,
      <<"d","a","t","a","f","r","a","m","e">>,
      <<"s","e","r","i","e","s">>,
      <<"d","t","y","p","e">>,
      <<"n","d","a","r","r","a","y">>,
      <<"i","n","d","e","x">> }

\* lines 350, 357-364: the rating; float() keeps a number (NaN included) and
\* raises on a label, and 0.0 stands in when the conversion raises
CoerceRating(obj, type) ==
    LET v == FirstTruthy(obj, <<"rating", "score", "avg_rating", "Rating">>, 1)
        given == IF Falsy(v) THEN PyInt(0) ELSE v
        conv == ConvertGameRating(given)
    IN  IF type = "game"
        THEN (IF conv.raised THEN PyInt(0) ELSE PyInt(conv.val))
        ELSE (IF given.tag \in {"int", "nan"} THEN given ELSE PyInt(0))

\* the Steam header address of line 378, for app id n
SteamHeader(n) == Http \o <<"/">> \o IntStr(n)

\* lines 347-349, 374-380, 390: the image address, None unless a string
\* that starts with "http"
CoerceImage(obj) ==
    LET given == FirstTruthy(obj, <<"image_url", "img_url", "poster", "header_image",
                                    "thumbnail", "Image URL">>, 1)
        app_id == FirstTruthy(obj, <<"app_id", "appid", "appId">>, 1)
        isUrl(v) == v.tag = "str" /\ StartsWith(v.val, Http)
        url == IF ~isUrl(given) /\ ~Falsy(app_id) /\ app_id.tag = "int"
               THEN PyStr(SteamHeader(app_id.val))
               ELSE given
    IN  IF isUrl(url) THEN url.val ELSE NoUrl

\* line 388: str(obj.get("id") or obj.get("app_id") or obj.get("anime_id")
\* or f"pop-{idx}")
CoerceId(obj, idx) ==
    LET native == FirstTruthy(obj, <<"id", "app_id", "anime_id">>, 1)
    IN  IF ~Falsy(native) THEN StrOf(native)
        ELSE <<"p","o","p","-">> \o IntStr(idx)

\* _coerce_record(obj, item_type, idx): None, or the item
CoerceRecord(obj, type, idx) ==
    LET title_str == StrOf(CoerceTitle(obj, idx))
    IN  IF \/ Len(title_str) > TitleLimit
           \/ \E m \in LeakMarkers : Contains(Lower(title_str), m)
        THEN [called |-> TRUE, none |-> TRUE, item |-> <<>>]
        ELSE [called |-> TRUE, none |-> FALSE,
              item |-> [id |-> CoerceId(obj, idx),
                        title |-> title_str,
                        image_url |-> CoerceImage(obj),
                        rating |-> CoerceRating(obj, type),
                        type |-> type]]

\* the largest index a record is given
MaxIdx == 1

\* a record with no key
NoKeys == [k \in {} |-> PyNone]

T_Blank == <<" ", " ">>

T_Index == <<"M","y"," ","I","n","d","e","x">>

\* the title fields a raw record may carry: none, None, empty, blank, a
\* title, a padded title, a number, a leaked marker, an alias
RawTitles ==
    { NoKeys,
      [title |-> PyNone],
      [title |-> PyStr(<<>>)],
      [title |-> PyStr(T_Blank)],
      [title |-> PyStr(T_Abc)],
      [title |-> PyStr(<<" ">> \o T_Abc)],
      [title |-> PyInt(7)],
      [title |-> PyStr(T_Index)],
      [name |-> PyStr(T_Zzz)],
      [title |-> PyStr(<<>>), Title |-> PyStr(T_Blank)] }

\* the identifiers it may carry: none, each native key, a falsy app id
RawIds ==
    { NoKeys,
      [id |-> PyInt(5)],
      [app_id |-> PyInt(7)],
      [anime_id |-> PyInt(12)],
      [app_id |-> PyInt(0)],
      [id |-> PyNone, anime_id |-> PyStr(<<"a","9">>)] }

\* the other fields: none, a rating label, a rating number, an image
RawOthers ==
    { NoKeys,
      [rating |-> PyStr(L_Mixed)],
      [score |-> PyInt(8)],
      [rating |-> PyNaN, image_url |-> PyStr(U_1)],
      [poster |-> PyStr(U_Bad)] }

RawRecords == {t @@ i @@ o : t \in RawTitles, i \in RawIds, o \in RawOthers}

CoerceInit ==
    /\ raw \in {[given |-> TRUE, obj |-> o, type |-> ty, idx |-> n] :
                  o \in RawRecords, ty \in {"anime", "game"}, n \in 0..MaxIdx}
    /\ coerced = NotCoerced
    /\ anime_popular = <<>>
    /\ built = <<>>
    /\ item_type = "anime"
    /\ data = NotLoaded
    /\ popular = [loaded |-> FALSE, entries |-> <<>>]
    /\ req = NoRequest
    /\ res = NoResult
    /\ rating_in = PyNone
    /\ rating_out = NotConverted
    /\ CacheQuiet

\* a caller normalizes the record (lines 544, 642, 647)
Coerce ==
    /\ ~coerced.called
    /\ coerced' = CoerceRecord(raw.obj, raw.type, raw.idx)
    /\ UNCHANGED <<raw, anime_popular, built, matchVars, ratingVars, cacheVars>>

CoerceNext == Coerce

SpecCoerce == CoerceInit /\ [][CoerceNext]_vars

(***************************************************************************)
(* Claims about _coerce_record, checked under SpecCoerce                   *)
(***************************************************************************)
\* _coerce_record returned an item
Coerced == coerced.called /\ ~coerced.none

\* the raw record has no native identifier under any of its id keys
NoNativeId ==
    \A k \in {"id", "app_id", "anime_id"} : Get(raw.obj, k) = PyNone

\* "<type>-<index>"
SyntheticId(type, idx) ==
    (IF type = "anime" THEN <<"a","n","i","m","e">> ELSE <<"g","a","m","e">>)
        \o <<"-">> \o IntStr(idx)

\* C12: every item normalize returns has an id and a title that is not
\* empty once trimmed.
C12_ItemHasIdAndTitle ==
    Coerced =>
        /\ coerced.item.id # <<>>
        /\ Strip(coerced.item.title) # <<>>

\* C13: the item built from a record with no native identifier has the id
\* "<type>-<index>".
C13_SyntheticIdIsTypeIndex ==
    (Coerced /\ NoNativeId) =>
        coerced.item.id = SyntheticId(raw.type, raw.idx)

(***************************************************************************)
(* get_popular over tables whose index is not the row position: each row   *)
(* carries its index label (the DataFrame index), and a game ranking is    *)
(* the list of labels of its popular frame (lines 305-309)                 *)
(***************************************************************************)
WithLabel(row, l) == [label |-> l] @@ row

\* the ways to label n rows with 0..n-1, the positional order among them
Labellings(n) == {p \in [1..n -> 0..(n - 1)] : Injective(p)}

LabelledTables ==
    UNION {{[loaded |-> TRUE, rows |-> [k \in 1..n |-> WithLabel(r[k], p[k])]] :
               r \in [1..n -> RowPool], p \in Labellings(n)} : n \in 1..MaxRows}

PopularInit ==
    /\ item_type \in {"anime", "game"}
    /\ data \in LabelledTables
    /\ popular \in PopularArtifacts(item_type)
    /\ req = NoRequest
    /\ res = NoResult
    /\ rating_in = PyNone
    /\ rating_out = NotConverted
    /\ CacheQuiet
    /\ CatalogQuiet

PopularNext ==
    \/ \E limit \in 0..MaxLimit : CallPopular(limit)
    \/ Respond

SpecPopular == PopularInit /\ [][PopularNext]_vars

(***************************************************************************)
(* Claims about get_popular, checked under SpecPopular                     *)
(***************************************************************************)
\* the rows of the table that entry e of the ranking names: by title for an
\* anime ranking, by index label for a game ranking
NamedRows(e) ==
    {k \in DOMAIN data.rows :
        IF item_type = "anime" THEN data.rows[k].title = e
        ELSE data.rows[k].label = e}

\* the entries of the ranking the call looked at
EntriesServed == Take(popular.entries, req.limit)

\* C14: in both domains every item get_popular returns is the item an
\* entry of the ranking names, found by title or label and not by taking
\* the entry as a row position, however the table is ordered.
C14_PopularResolvedByLookup ==
    (req.op = "popular" /\ data.loaded /\ popular.loaded) =>
        \A k \in DOMAIN res.out.val :
            \E j \in DOMAIN EntriesServed :
                \E n \in NamedRows(EntriesServed[j]) :
                    data.rows[n].title = res.out.val[k].title

(***************************************************************************)
(* create_app: the anime_popular list built at startup from a ranking of   *)
(* titles (lines 545-596), and the popular endpoint that serves it (lines  *)
(* 669-680).  A row of the table carries its 'Image URL' cell.              *)
(***************************************************************************)
\* popular_df[:25] of line 552
StartupCap == 25

\* anime_popular[:25] of line 671
PopularCap == 25

WithImage(row, v) == [image_url |-> v] @@ row

\* the rows of the anime table: with and without a cover
CatalogRows ==
    {WithImage(r, v) : r \in {x \in RowPool : x.popularity.tag = "int"},
                       v \in {PyNone, PyStr(U_1)}}

CatalogTables ==
    {NotLoaded} \cup
    {[loaded |-> TRUE, rows |-> r] : r \in SeqsUpTo(CatalogRows, MaxRows) \ {<<>>}}

\* lines 553-593: the item shaped for one title of the ranking, <<>> when
\* no row has the title or the shaping raises
ShapedAnime(rows, name, i) ==
    LET found == MatchingRows(rows, [j \in DOMAIN rows |-> rows[j].title = name])
        it == PopularAnimeEntry(rows, name, i)
    IN  IF it = <<>> THEN <<>>
        ELSE <<[f \in (DOMAIN it[1] \ {"similarity"}) \cup {"image_url"} |->
                   IF f = "image_url" THEN rows[found[1]].image_url ELSE it[1][f]]>>

RECURSIVE ShapedLoop(_, _, _)
ShapedLoop(rows, entries, i) ==
    IF i > Len(entries) THEN <<>>
    ELSE ShapedAnime(rows, entries[i], i - 1) \o ShapedLoop(rows, entries, i + 1)

\* lines 491-596 for a ranking that is a list of titles
BuildAnimePopular(d, pop) ==
    IF ~pop.loaded \/ ~d.loaded THEN <<>>
    ELSE ShapedLoop(d.rows, Take(pop.entries, StartupCap), 1)

\* _get_anime_image_url(title) run from entry to return, the reply of the
\* lookup being o: what it returns, the dict it leaves, whether it stored
ResolveImage(c, avail, title, o) ==
    LET key == CacheKey(title)
        none == [ret |-> NoUrl, cache |-> c, stored |-> FALSE]
    IN  IF title = <<>> THEN none
        ELSE IF InCache(c, key) THEN [ret |-> c[key], cache |-> c, stored |-> FALSE]
        ELSE IF ~avail THEN none
        ELSE IF o.kind = "ok" /\ IsHttpUrl(o.url)
             THEN [ret |-> o.url, cache |-> StoreUrl(c, key, o.url), stored |-> TRUE]
        ELSE none

\* the loop of lines 673-677 from item k on: the items, the dict and the
\* number of _save threads started
RECURSIVE EnrichLoop(_, _, _, _, _, _)
EnrichLoop(items, k, c, avail, outs, saves) ==
    IF k > Len(items) THEN [items |-> items, cache |-> c, saves |-> saves]
    ELSE IF ~Falsy(items[k].image_url)
         THEN EnrichLoop(items, k + 1, c, avail, outs, saves)
    ELSE LET r == ResolveImage(c, avail, items[k].title, outs[k])
             next == IF r.ret # NoUrl
                     THEN [items EXCEPT ![k].image_url = PyStr(r.ret)]
                     ELSE items
         IN  EnrichLoop(next, k + 1, r.cache, avail, outs,
                        saves + (IF r.stored THEN 1 ELSE 0))

CatalogInit ==
    /\ item_type = "anime"
    /\ data \in CatalogTables
    /\ popular \in PopularArtifacts("anime")
    /\ anime_popular = BuildAnimePopular(data, popular)
    /\ built = anime_popular
    /\ requests_avail \in BOOLEAN
    /\ file \in {FileAbsent, FileOf(StoreUrl(EmptyCache, T_Abc, U_2))}
    /\ cache = LoadCache(file)
    /\ lock = 0
    /\ th = [t \in Threads |-> Idle]
    /\ hist = [t \in Threads |-> <<>>]
    /\ savers = 0
    /\ ncalls = 0
    /\ io_error = FALSE
    /\ raw = NoRaw
    /\ coerced = NotCoerced
    /\ req = NoRequest
    /\ res = NoResult
    /\ rating_in = PyNone
    /\ rating_out = NotConverted

\* the loop of lines 673-677 over anime_popular[:25], the replies being outs
Enriched(outs) ==
    EnrichLoop(Take(anime_popular, PopularCap), 1, cache, requests_avail, outs, 0)

\* api_anime_popular (lines 669-680): the items of anime_popular[:25] are
\* the dicts of anime_popular itself, so line 677 writes into the list
ApiAnimePopular(outs) ==
    /\ anime_popular' = Enriched(outs).items
                           \o SubSeq(anime_popular, PopularCap + 1, Len(anime_popular))
    /\ cache' = Enriched(outs).cache
    /\ savers' = savers + Enriched(outs).saves
    /\ UNCHANGED <<requests_avail, file, lock, th, hist, ncalls, io_error,
                   raw, coerced, built, matchVars, ratingVars>>

\* the replies of the lookups one request may make, one per item served
ReplySeqs == [1..MaxPopular -> NetOutcomes]

CatalogNext ==
    \/ \E outs \in ReplySeqs : ApiAnimePopular(outs)
    \/ SaveAcquire
    \/ \E ok \in BOOLEAN : SaveWrite(ok)

SpecCatalog == CatalogInit /\ [][CatalogNext]_vars

(***************************************************************************)
(* Claims about the catalog lists, checked under SpecCatalog               *)
(***************************************************************************)
\* C15: after startup every item of the anime_popular list keeps the field
\* values, image_url included, it had when the list was built.
C15_CatalogReadOnly ==
    /\ Len(anime_popular) = Len(built)
    /\ \A k \in DOMAIN built : anime_popular[k] = built[k]

(***************************************************************************)
(* The matcher over the catalog "Attack on Titan", "Attack No More",       *)
(* "Titanfall", in every table order                                       *)
(***************************************************************************)
T_AttackOnTitan == <<"A","t","t","a","c","k"," ","o","n"," ","T","i","t","a","n">>

T_AttackNoMore == <<"A","t","t","a","c","k"," ","N","o"," ","M","o","r","e">>

T_Titanfall == <<"T","i","t","a","n","f","a","l","l">>

\* a well-formed row with no native id
PlainRow(title) ==
    [title |-> title, native_id |-> NoId, rating |-> PyNone, popularity |-> PyInt(1)]

ScenarioCatalog ==
    <<PlainRow(T_AttackOnTitan), PlainRow(T_AttackNoMore), PlainRow(T_Titanfall)>>

\* the catalog in each order of its rows
ScenarioTables ==
    {[loaded |-> TRUE, rows |-> [k \in DOMAIN ScenarioCatalog |-> ScenarioCatalog[p[k]]]] :
        p \in {f \in [DOMAIN ScenarioCatalog -> DOMAIN ScenarioCatalog] : Injective(f)}}

\* rankings over the catalog: titles for anime, row positions for game
ScenarioArtifacts(type) ==
    IF type = "game" THEN PopularArtifacts(type)
    ELSE {[loaded |-> FALSE, entries |-> <<>>]}
         \cup {[loaded |-> TRUE, entries |-> e] :
                  e \in {x \in SeqsUpTo({T_AttackOnTitan, T_AttackNoMore, T_Titanfall}, MaxPopular) :
                            Injective(x)}}

ScenarioQueries ==
    { <<"a","t","t","a","c","k">>,
      <<" ","T","i","t","a","n"," ">>,
      <<"a","t","t","a","c","k"," ","o","n">>,
      <<"A","t","t","a","c","k"," ","O","n"," ","T","i","t","a","n">> }

ScenarioInit ==
    /\ item_type \in {"anime", "game"}
    /\ data \in ScenarioTables
    /\ popular \in ScenarioArtifacts(item_type)
    /\ req = NoRequest
    /\ res = NoResult
    /\ rating_in = PyNone
    /\ rating_out = NotConverted
    /\ CacheQuiet
    /\ CatalogQuiet

ScenarioNext ==
    \/ \E q \in ScenarioQueries, limit \in 1..MaxLimit : CallRecommend(q, limit)
    \/ Respond

SpecScenario == ScenarioInit /\ [][ScenarioNext]_vars

(***************************************************************************)
(* Claims about the order of a match result, checked under SpecScenario    *)
(***************************************************************************)
Q_Attack == <<"a","t","t","a","c","k">>

\* item k of the result was appended by a tier (similarity 0.8) and not by
\* the popularity padding (similarity 0.5)
TierItem(k) == Result[k].similarity = 8

\* the position in the table of the row item k was made from
RowOf(k) == CHOOSE n \in DOMAIN data.rows : data.rows[n].title = Result[k].title

\* the first tier whose test the title of item k passes: 1 Exact, 2 Prefix,
\* 3 Contains, 4 Word-boundary only
TierOf(k) ==
    LET t == Lower(Result[k].title)
    IN  IF t = Q THEN 1
        ELSE IF StartsWith(t, Q) THEN 2
        ELSE IF Len(Q) >= 4 /\ Contains(t, Q) THEN 3
        ELSE 4

\* the scenario: the catalog in its stated order, query "attack", limit >= 2
AttackScenario ==
    /\ IsRecommend /\ res.path = "tiers"
    /\ data.rows = ScenarioCatalog
    /\ Q = Q_Attack
    /\ req.limit >= 2

\* C16 as stated: in the scenario, for every limit >= 2 the result begins
\* with "Attack on Titan" then "Attack No More", both from the Prefix tier.
C16_PrefixPairForEveryLimit ==
    AttackScenario =>
        /\ Len(Result) >= 2
        /\ Result[1].title = T_AttackOnTitan /\ TierItem(1)
        /\ Result[2].title = T_AttackNoMore /\ TierItem(2)

\* C16 amended: the items the tiers append come before the padding; for a
\* query of one word (no Word-boundary tier) they are in tier order, and in
\* table order within a tier; the Prefix tier appends at most limit // 2
\* items, so in the scenario the result begins with "Attack on Titan", and
\* "Attack No More" follows from the Prefix tier only when limit >= 4.
C16_TierOrderAndPrefixCap ==
    /\ (IsRecommend /\ res.path = "tiers") =>
          \A j, k \in DOMAIN Result :
              j < k =>
                  /\ TierItem(k) => TierItem(j)
                  /\ (TierItem(j) /\ TierItem(k) /\ Len(Split(Q)) = 1) =>
                        /\ TierOf(j) <= TierOf(k)
                        /\ TierOf(k) <= 3
                        /\ TierOf(j) = TierOf(k) => RowOf(j) < RowOf(k)
    /\ AttackScenario =>
          /\ Result[1].title = T_AttackOnTitan /\ TierItem(1)
          /\ req.limit >= 4 =>
                (Result[2].title = T_AttackNoMore /\ TierItem(2))
          /\ req.limit < 4 =>
                \A k \in DOMAIN Result : k >= 2 => ~TierItem(k)

\* C16 witness: the scenario with a limit that lets the Prefix tier append
\* both titles
C16_Witness ==
    /\ AttackScenario
    /\ req.limit >= 4
    /\ Result[1].title = T_AttackOnTitan /\ TierItem(1)
    /\ Result[2].title = T_AttackNoMore /\ TierItem(2)

(***************************************************************************)
(* Claims about the side file, checked under SpecCache                     *)
(***************************************************************************)
\* every _save thread that was or is still to be started for a stored url
\* has written: none waits for the lock, none holds it, and no request
\* thread is between its store and the start of its _save
SavesDone ==
    /\ savers = 0
    /\ lock # Saver
    /\ \A t \in Threads : th[t].pc \notin {"store", "persist"}

\* C17: every save writes the whole dict as it is when it writes, and once
\* all the saves have completed with no I/O error the file holds exactly the
\* dict: no stored entry is missing from it.
C17_PersistenceConverges ==
    /\ []((SavesDone /\ ~io_error) => cache = LoadCache(file))
    /\ [][file' # file => file' = FileOf(cache)]_vars

\* C17 witness: two request threads have each stored a url for a title of
\* their own, their two saves have completed, and the file holds both
C17_Witness ==
    /\ SavesDone /\ ~io_error
    /\ file.state = "ok" /\ file.content = cache
    /\ \E t, u \in Threads :
          /\ t # u /\ Len(hist[t]) = 1 /\ Len(hist[u]) = 1
          /\ hist[t][1].looked /\ hist[u][1].looked
          /\ hist[t][1].ret # NoUrl /\ hist[u][1].ret # NoUrl
          /\ hist[t][1].key # hist[u][1].key
          /\ InCache(cache, hist[t][1].key) /\ InCache(cache, hist[u][1].key)

\* C18: once a key has a url in the dict the key stays and its url is never
\* replaced by another, also when several calls for one uncached title are
\* in flight together; and a call that finds the key returns that url with
\* no lookup.
C18_CacheEntriesStable ==
    /\ [][\A k \in DOMAIN cache : InCache(cache', k) /\ cache'[k] = cache[k]]_vars
    /\ [](\A t \in Threads : \A n \in DOMAIN hist[t] :
             hist[t][n].seen # NoUrl =>
                 (~hist[t][n].looked /\ hist[t][n].ret = hist[t][n].seen))

====
